---------------------------- MODULE Spec2Model ----------------------------
(***************************************************************************)
(* Model of the asynchronous logging subsystem of src/source/Logging.py:   *)
(* the LoggerComposer registry, the ComposerMeta construction hook, the    *)
(* Logger (queue + consumer task) and the FileGateway (queue + writer      *)
(* task + rotation).                                                       *)
(*                                                                         *)
(* Objects are kept in growing sequences (the index is the object's        *)
(* identity).  asyncio is cooperative: one action is the code a task or a  *)
(* caller runs between two awaits that really suspend.                     *)
(***************************************************************************)
EXTENDS Integers, Sequences, FiniteSets, TLC

VARIABLES
    lcInstance,     \* LoggerComposer._instance is not None
    metaInstance,   \* ComposerMeta._instance is not None
    composerLevel,  \* composer.level of the installed composer
    registry,       \* composer._loggers, in insertion order
    loggers,        \* every Logger object constructed so far
    gateways,       \* every FileGateway object constructed so far
    tasks,          \* every FileGateway._stream_process task created so far
    files,          \* segment files on disk: <<path, stamp>> -> lines
    now,            \* datetime.now(), whole seconds
    nLog,           \* number of log() calls made so far
    lastCall        \* the registry call made by the last step, and its result

vars == <<lcInstance, metaInstance, composerLevel, registry, loggers,
          gateways, tasks, files, now, nLog, lastCall>>

---------------------------------------------------------------------------
(* Bounds of the model *)

MaxLoggers == 2
MaxGateways == 2
MaxLog == 3
MaxTime == 2
MaxTasks == 5

---------------------------------------------------------------------------
(* Severity model *)

\* class LogLevel(enum.Enum): the member's value
LogLevel ==
    [SIGSTOP |-> -1, DEBUG |-> 0, INFO |-> 1, WARNING |-> 2, ERROR |-> 3,
     FATAL |-> 4, EXCEPTION |-> 5, QUIET |-> 6, NOTSET |-> 7]

\* the six severities the convenience wrappers (debug .. exception) emit
Severities == {"DEBUG", "INFO", "WARNING", "ERROR", "FATAL", "EXCEPTION"}

\* every value a Logger's _level can hold
Thresholds == Severities \cup {"QUIET", "NOTSET"}

\* loglevel_dict: level name -> LogLevel member
loglevel_dict ==
    [DEBUG |-> "DEBUG", INFO |-> "INFO", WARNING |-> "WARNING",
     ERROR |-> "ERROR", FATAL |-> "FATAL", EXCEPTION |-> "EXCEPTION",
     QUIET |-> "QUIET", NOTSET |-> "NOTSET"]

\* level names a configuration may hold: the known ones and an unknown one
LevelNames == Thresholds \cup {"VERBOSE"}

\* the level names and levels the registry's callers pass
InstanceLevels == {"WARNING", "NOTSET", "VERBOSE"}
SetLevels == {"INFO", "ERROR", "NOTSET"}

\* loglevel_dict.get(loglevel, LogLevel.NOTSET)
LevelOf(str) ==
    IF str \in DOMAIN loglevel_dict THEN loglevel_dict[str] ELSE "NOTSET"

---------------------------------------------------------------------------
(* Names and destinations *)

\* kwargs.get("name", "default")
DefaultName == "default"

\* kwargs.get("file", "log.txt")
DefaultFile == "log.txt"

\* names and files callers pass
GivenNames == {"a", "b"}
GivenFiles == {"f.log", DefaultFile}

\* "./logs/" + logfile_location
Resolve(file) == <<"./logs/", file>>

\* a call: its name, the Logger it was made on or returned (0: none), the
\* Logger it constructed (0: none), its level argument, the exception it
\* raised ("": none) and the stop() calls it made, in order
NoCall == [op |-> "none", obj |-> 0, made |-> 0, lvl |-> "", err |-> "",
           calls |-> <<>>]

Call(op) == [NoCall EXCEPT !.op = op]

---------------------------------------------------------------------------
(* Object constructors *)

\* Logger.__init__ (stopPc: where a stop() call on the Logger stands; mark:
\* the serial number of the last log() call made before stop() was called;
\* failed: the serial numbers of the items whose processing raised)
NewLoggerObj(name) ==
    [name |-> name, level |-> "NOTSET", queue |-> <<>>, unfinished |-> 0,
     task |-> FALSE, pc |-> "none", held |-> <<>>, cancel |-> FALSE,
     logging |-> TRUE, gateway |-> 0, stopPc |-> "idle", mark |-> 0,
     failed |-> {}]

\* FileGateway.__init__ (stopPc: where a stop() call on the gateway stands;
\* stopTask: the task object that call awaits)
NewGatewayObj(path) ==
    [file_loc |-> path, start_stamp |-> now, stream |-> <<>>, task |-> 0,
     logging |-> TRUE, rot_type |-> "NONE", rot_amt |-> <<>>,
     stopPc |-> "idle", stopTask |-> 0]

\* asyncio.create_task(self._stream_process()) for gateway g
NewTask(g) == [gw |-> g, pc |-> "start", stamp |-> 0, msg |-> <<>>,
               cancel |-> FALSE, target |-> 0]

\* a task object that can still run (asyncio: not task.done())
Live(t) == tasks[t].pc # "done"

---------------------------------------------------------------------------
(* LoggerComposer *)

\* LoggerComposer.__contains__
Contains(reg, name) == \E i \in 1..Len(reg) : reg[i].key = name

\* index of the entry registered under name
EntryOf(reg, name) == CHOOSE i \in 1..Len(reg) : reg[i].key = name

\* mutant: the lookup never finds the destination's gateway
get_gateway_never(reg, path) == 0

\* LoggerComposer.get_gateway_if_exists: the first entry's gateway, or 0 (None)
get_gateway_if_exists(reg, path) ==
    IF \E i \in 1..Len(reg) : reg[i].file = path
    THEN LET i == CHOOSE k \in 1..Len(reg) :
                    /\ reg[k].file = path
                    /\ \A j \in 1..(k-1) : reg[j].file # path
         IN reg[i].gateway
    ELSE 0

\* mutant: set_level without its "already set" guard
set_level_unguarded(lg, level) == [lg EXCEPT !.level = level]

\* Logger.set_level on a Logger record
set_level(lg, level) ==
    IF lg.level # "NOTSET" THEN lg ELSE [lg EXCEPT !.level = level]

\* dict deletion: del self._loggers[name]
DelEntry(reg, name) ==
    LET i == EntryOf(reg, name)
    IN  SubSeq(reg, 1, i - 1) \o SubSeq(reg, i + 1, Len(reg))

\* mutant: set_level_if_not_set pushing DEBUG instead of the composer's level
set_level_if_not_set_debug(reg, lgs, level) ==
    [i \in 1..Len(lgs) |->
        IF \E k \in 1..Len(reg) : reg[k].logger = i
        THEN set_level(lgs[i], "DEBUG")
        ELSE lgs[i]]

\* LoggerComposer.set_level_if_not_set: set_level(self.level) on every entry
set_level_if_not_set(reg, lgs, level) ==
    [i \in 1..Len(lgs) |->
        IF \E k \in 1..Len(reg) : reg[k].logger = i
        THEN set_level(lgs[i], level)
        ELSE lgs[i]]

\* ComposerMeta._get_composer: the registry the call works on (created with
\* loglevel="DEBUG" when no composer is installed)
ComposerReg == IF lcInstance THEN registry ELSE <<>>
ComposerLvl == IF lcInstance THEN composerLevel ELSE LevelOf("DEBUG")

\* ComposerMeta._get_composer: effect on the two singletons' slots
GetComposer ==
    /\ lcInstance' = TRUE
    /\ metaInstance' = (metaInstance \/ ~lcInstance)

\* ComposerMeta.__call__: logger_name = kwargs.get("name", "default")
LoggerKey(name, kw) == IF kw THEN name ELSE DefaultName

\* ComposerMeta.__call__: "./logs/" + kwargs.get("file", "log.txt")
LoggerPath(file, kw) == Resolve(IF kw THEN file ELSE DefaultFile)

\* FileGateway.start on gateway g: <<gateways, tasks>> afterwards
start(gws, tks, g) ==
    IF gws[g].task # 0
    THEN <<gws, tks>>
    ELSE <<[gws EXCEPT ![g].task = Len(tks) + 1], Append(tks, NewTask(g))>>

\* LoggerComposer.add_logger: logger._level = self.level
add_logger_level(lg, level) == [lg EXCEPT !.level = level]

---------------------------------------------------------------------------
(* Registry operations *)

\* Logger(name, file) / Logger(name=name, file=file): ComposerMeta.__call__
NewLogger(name, file, kw) ==
    LET key  == LoggerKey(name, kw)
        path == LoggerPath(file, kw)
        reg  == ComposerReg
        lvl  == ComposerLvl
    IN
    /\ GetComposer
    /\ IF Contains(reg, key)
       THEN /\ registry' = reg
            /\ composerLevel' = lvl
            /\ lastCall' = [Call("Logger") EXCEPT
                                !.obj = reg[EntryOf(reg, key)].logger]
            /\ UNCHANGED <<loggers, gateways, tasks>>
       ELSE LET found == get_gateway_if_exists(reg, path)
                g     == IF found = 0 THEN Len(gateways) + 1 ELSE found
                gws0  == IF found = 0
                         THEN Append(gateways, NewGatewayObj(path))
                         ELSE gateways
                id    == Len(loggers) + 1
                lg    == add_logger_level(
                            [NewLoggerObj(name) EXCEPT !.gateway = g],
                            lvl)
                st    == start(gws0, tasks, g)
            IN
            /\ Len(loggers) < MaxLoggers
            /\ found = 0 => Len(gateways) < MaxGateways
            /\ Len(st[2]) <= MaxTasks
            /\ loggers' = Append(loggers, lg)
            /\ gateways' = st[1]
            /\ tasks' = st[2]
            /\ registry' = Append(reg, [key |-> key, logger |-> id,
                                        file |-> path, gateway |-> g])
            /\ composerLevel' = lvl
            /\ lastCall' = [Call("Logger") EXCEPT !.obj = id, !.made = id]
    /\ UNCHANGED <<files, now, nLog>>

\* mutant: set_instance without its "already set" test
SetInstance_overwrite(str) ==
    /\ lcInstance' = TRUE
    /\ composerLevel' = LevelOf(str)
    /\ registry' = <<>>
    /\ lastCall' = Call("set_instance")
    /\ UNCHANGED <<metaInstance, loggers, gateways, tasks, files, now, nLog>>

\* LoggerComposer.set_instance(LoggerComposer(loglevel=str))
SetInstance(str) ==
    /\ IF lcInstance
       THEN /\ lastCall' = [Call("set_instance") EXCEPT
                                !.err = "RuntimeError"]
            /\ UNCHANGED <<lcInstance, composerLevel, registry>>
       ELSE /\ lcInstance' = TRUE
            /\ composerLevel' = LevelOf(str)
            /\ registry' = <<>>
            /\ lastCall' = Call("set_instance")
    /\ UNCHANGED <<metaInstance, loggers, gateways, tasks, files, now, nLog>>

\* LoggerComposer.remove_logger(name) on the installed composer
RemoveLogger(name) ==
    /\ lcInstance
    /\ IF ~Contains(registry, name)
       THEN /\ lastCall' = [Call("remove_logger") EXCEPT
                                !.err = "ValueError"]
            /\ UNCHANGED registry
       ELSE /\ registry' = DelEntry(registry, name)
            /\ lastCall' = Call("remove_logger")
    /\ UNCHANGED <<lcInstance, metaInstance, composerLevel, loggers, gateways,
                   tasks, files, now, nLog>>

\* LoggerComposer.stop_everything, the loop: for every entry, in insertion
\* order, logger[0].stop() and then logger[2].stop() are called
stop_everything_calls(reg) ==
    [i \in 1..(2 * Len(reg)) |->
        IF i % 2 = 1
        THEN [kind |-> "Logger", obj |-> reg[(i + 1) \div 2].logger]
        ELSE [kind |-> "FileGateway", obj |-> reg[i \div 2].gateway]]

\* mutant: stop_everything without its last line
stop_everything_keep(reg) == reg

\* LoggerComposer.stop_everything: logger[0].stop() and logger[2].stop() are
\* coroutine functions called without await, so their bodies never run; the
\* only effect is self._loggers = {}
stop_everything(reg) == <<>>

\* stop_logging(): ComposerMeta._stop_all_sig
StopLogging ==
    /\ GetComposer
    /\ registry' = stop_everything(ComposerReg)
    /\ composerLevel' = ComposerLvl
    /\ lastCall' = [Call("stop_logging") EXCEPT
                        !.calls = stop_everything_calls(ComposerReg)]
    /\ UNCHANGED <<loggers, gateways, tasks, files, now, nLog>>

\* logger.set_level(level) on Logger object i
SetLevel(i, level) ==
    /\ i \in 1..Len(loggers)
    /\ loggers' = [loggers EXCEPT ![i] = set_level(@, level)]
    /\ lastCall' = [Call("set_level") EXCEPT !.obj = i, !.lvl = level]
    /\ UNCHANGED <<lcInstance, metaInstance, composerLevel, registry,
                   gateways, tasks, files, now, nLog>>

\* composer.set_level_if_not_set() on the installed composer
SetLevelIfNotSet ==
    /\ lcInstance
    /\ loggers' = set_level_if_not_set(registry, loggers, composerLevel)
    /\ lastCall' = Call("set_level_if_not_set")
    /\ UNCHANGED <<lcInstance, metaInstance, composerLevel, registry,
                   gateways, tasks, files, now, nLog>>

---------------------------------------------------------------------------
(* The registry's specification *)

Init ==
    /\ lcInstance = FALSE
    /\ metaInstance = FALSE
    /\ composerLevel = "NOTSET"
    /\ registry = <<>>
    /\ loggers = <<>>
    /\ gateways = <<>>
    /\ tasks = <<>>
    /\ files = <<>>
    /\ now = 0
    /\ nLog = 0
    /\ lastCall = NoCall

Next ==
    \/ \E name \in GivenNames, file \in GivenFiles, kw \in BOOLEAN :
          NewLogger(name, file, kw)
    \/ \E str \in InstanceLevels : SetInstance(str)
    \/ \E name \in GivenNames \cup {DefaultName} : RemoveLogger(name)
    \/ StopLogging
    \/ \E i \in 1..MaxLoggers, level \in SetLevels : SetLevel(i, level)
    \/ SetLevelIfNotSet

Spec == Init /\ [][Next]_vars

---------------------------------------------------------------------------
(* Logger: emit and the consumer task *)

\* the queue item log() puts for SIGSTOP: None
None == [sev |-> "NONE", n |-> 0]

\* the queue item log() puts for a message: (loglevel, message); the message
\* text is identified by the serial number n of the log() call
Item(sev, n) == [sev |-> sev, n |-> n]

\* reversed_loglevel_dict.get(level.value, "UNKNOWN")
reversed_loglevel_dict(sev) ==
    IF sev \in Thresholds THEN sev ELSE "UNKNOWN"

\* Logger._apply_decorations: "[<timestamp> - <name>/<LEVEL>] -> <message>"
\* (the timestamp prefix is left out: nothing reads it back)
_apply_decorations(lg, item) ==
    [name |-> lg.name, level |-> reversed_loglevel_dict(item.sev),
     n |-> item.n]

\* FileGateway.boilerplate_message() + "\n" + "-" * 20 + "\n"
Banner == [name |-> "", level |-> "BANNER", n |-> 0]

\* the None a Logger forwards to its gateway's queue, as a line
NoLine == [name |-> "", level |-> "NONE", n |-> 0]

\* mutant: NOTSET ranked below every severity
Accepts_unset(level, sev) ==
    level # "QUIET" /\ (level = "NOTSET" \/ LogLevel[sev] >= LogLevel[level])

\* mutant: the comparison of Logger.log made strict
Accepts_strict(level, sev) ==
    level # "QUIET" /\ LogLevel[sev] > LogLevel[level]

\* mutant: Logger.log without the rank comparison
Accepts_any(level, sev) == level # "QUIET"

\* Logger.log: the message is put on the queue
Accepts(level, sev) ==
    level # "QUIET" /\ LogLevel[sev] >= LogLevel[level]

\* mutant: _create without its test of the running flag
_create_always(lg) ==
    IF lg.task
    THEN lg
    ELSE [lg EXCEPT !.task = TRUE, !.pc = "start", !.cancel = FALSE,
                    !.logging = TRUE]

\* Logger._create
_create(lg) ==
    IF lg.task \/ ~lg.logging
    THEN lg
    ELSE [lg EXCEPT !.task = TRUE, !.pc = "start", !.cancel = FALSE,
                    !.logging = TRUE]

\* mutant: put hands the item to the consumer instead of queueing it
Put_hold(lg, item) ==
    [lg EXCEPT !.held = <<item>>, !.unfinished = @ + 1]

\* asyncio.Queue.put on the unbounded Logger queue (never suspends)
Put(lg, item) ==
    [lg EXCEPT !.queue = Append(@, item), !.unfinished = @ + 1]

\* Logger.log on a Logger record; n is the serial number of the call
log(lg, sev, n) ==
    IF lg.level = "QUIET" THEN lg
    ELSE IF sev = "SIGSTOP" THEN Put(lg, None)
    ELSE LET lg1 == IF Accepts(lg.level, sev)
                    THEN Put(lg, Item(sev, n)) ELSE lg
         IN  IF ~lg1.task THEN _create(lg1) ELSE lg1

\* logger.log(sev, text) / logger.debug(text) ...: one call, which never
\* suspends (the queue is unbounded)
Log(l, sev) ==
    /\ l \in 1..Len(loggers)
    /\ nLog < MaxLog
    /\ loggers' = [loggers EXCEPT ![l] = log(@, sev, nLog + 1)]
    /\ nLog' = nLog + 1
    /\ lastCall' = NoCall
    /\ UNCHANGED <<lcInstance, metaInstance, composerLevel, registry,
                   gateways, tasks, files, now>>

\* Logger._process_queue after queue.get() returned item: <<Logger, lines
\* enqueued to the gateway>>
Took(lg, item) ==
    IF item = None
    THEN <<[lg EXCEPT !.pc = "done", !.held = <<>>], <<NoLine>>>>
    ELSE <<[lg EXCEPT !.pc = "printing", !.held = <<item>>], <<>>>>

\* Logger._process_queue from the head of its while loop up to the next
\* await that suspends: <<Logger, lines enqueued to the gateway>>
Loop(lg) ==
    IF ~lg.logging THEN <<[lg EXCEPT !.pc = "done", !.held = <<>>], <<>>>>
    ELSE IF lg.queue = <<>>
         THEN <<[lg EXCEPT !.pc = "waiting", !.held = <<>>], <<>>>>
         ELSE Took([lg EXCEPT !.queue = Tail(@)], Head(lg.queue))

\* FileGateway.enqueue of every line of a sequence
enqueue(gw, lines) == [gw EXCEPT !.stream = @ \o lines]

\* a step of Logger l's consumer that leaves the Logger as r[1] and
\* enqueues the lines r[2]
LoggerStep(l, r) ==
    /\ loggers' = [loggers EXCEPT ![l] = r[1]]
    /\ gateways' = [gateways EXCEPT ![loggers[l].gateway] = enqueue(@, r[2])]
    /\ lastCall' = NoCall
    /\ UNCHANGED <<lcInstance, metaInstance, composerLevel, registry, tasks,
                   files, now, nLog>>

\* the consumer task runs for the first time
LoggerRun(l) ==
    /\ l \in 1..Len(loggers)
    /\ loggers[l].pc = "start" /\ ~loggers[l].cancel
    /\ LoggerStep(l, Loop(loggers[l]))

\* the consumer, suspended in queue.get(), is woken by an item
LoggerWake(l) ==
    /\ l \in 1..Len(loggers)
    /\ loggers[l].pc = "waiting" /\ ~loggers[l].cancel
    /\ loggers[l].queue # <<>>
    /\ LoggerStep(l, Took([loggers[l] EXCEPT !.queue = Tail(@)],
                          Head(loggers[l].queue)))

\* aprint(message) returns: the line is enqueued and the loop goes round
LoggerPrinted(l) ==
    /\ l \in 1..Len(loggers)
    /\ loggers[l].pc = "printing" /\ ~loggers[l].cancel
    /\ LET lg   == loggers[l]
           line == _apply_decorations(lg, lg.held[1])
           r    == Loop(lg)
       IN  LoggerStep(l, <<r[1], <<line>> \o r[2]>>)

\* the consumer is resumed with CancelledError (or cancelled before it ran)
LoggerCancelled(l) ==
    /\ l \in 1..Len(loggers)
    /\ loggers[l].cancel
    /\ loggers[l].pc \in {"start", "waiting", "printing", "reporting"}
    /\ LoggerStep(l, <<[loggers[l] EXCEPT !.pc = "done", !.held = <<>>,
                                          !.cancel = FALSE], <<>>>>)

\* mutant: an exception raised while an item is processed ends the consumer
LoggerFails_dies(l) ==
    /\ l \in 1..Len(loggers)
    /\ loggers[l].pc = "printing" /\ ~loggers[l].cancel
    /\ LET lg == loggers[l]
       IN  LoggerStep(l, <<[lg EXCEPT !.pc = "done", !.held = <<>>,
                                      !.failed = @ \cup {lg.held[1].n}],
                           <<>>>>)

\* aprint(message) raises an Exception (its fallback print failed): the item
\* is not enqueued to the gateway, the "except Exception" branch of
\* _process_queue awaits aprint_err
LoggerFails(l) ==
    /\ l \in 1..Len(loggers)
    /\ loggers[l].pc = "printing" /\ ~loggers[l].cancel
    /\ LET lg == loggers[l]
       IN  LoggerStep(l, <<[lg EXCEPT !.pc = "reporting", !.held = <<>>,
                                      !.failed = @ \cup {lg.held[1].n}],
                           <<>>>>)

\* aprint_err returns: the while loop goes round
LoggerReported(l) ==
    /\ l \in 1..Len(loggers)
    /\ loggers[l].pc = "reporting" /\ ~loggers[l].cancel
    /\ LoggerStep(l, Loop(loggers[l]))

---------------------------------------------------------------------------
(* Logger.stop *)

\* Logger.stop up to its first await that suspends.  queue.join() returns
\* at once when no item was ever put; otherwise it waits for task_done(),
\* which nothing in the module calls: the caller stays in "joining".
stop_call(lg) ==
    LET lg1 == [lg EXCEPT !.logging = FALSE]
    IN  IF lg1.unfinished > 0 THEN [lg1 EXCEPT !.stopPc = "joining"]
        ELSE IF lg1.task
             THEN [lg1 EXCEPT !.stopPc = "awaiting",
                              !.cancel = (lg1.pc # "done")]
             ELSE [lg1 EXCEPT !.stopPc = "returned", !.task = FALSE]

\* await logger.stop() is called
StopCall(l) ==
    /\ l \in 1..Len(loggers)
    /\ loggers[l].stopPc \in {"idle", "returned"}
    /\ loggers' = [loggers EXCEPT ![l] = [stop_call(@) EXCEPT !.mark = nLog]]
    /\ lastCall' = NoCall
    /\ UNCHANGED <<lcInstance, metaInstance, composerLevel, registry,
                   gateways, tasks, files, now, nLog>>

\* the cancelled consumer task is done: stop() clears the handle and returns
StopReturn(l) ==
    /\ l \in 1..Len(loggers)
    /\ loggers[l].stopPc = "awaiting" /\ loggers[l].pc = "done"
    /\ loggers' = [loggers EXCEPT ![l].stopPc = "returned", ![l].task = FALSE]
    /\ lastCall' = NoCall
    /\ UNCHANGED <<lcInstance, metaInstance, composerLevel, registry,
                   gateways, tasks, files, now, nLog>>

---------------------------------------------------------------------------
(* FileGateway: rotation policy, segments and the writer tasks *)

\* size_type_dict
size_type_dict ==
    [b |-> 1, bytes |-> 1, byte |-> 1,
     kb |-> 1024, kilobytes |-> 1024, kilobyte |-> 1024,
     mb |-> 1024 * 1024, megabytes |-> 1024 * 1024, megabyte |-> 1024 * 1024,
     gb |-> 1024 * 1024 * 1024, gigabytes |-> 1024 * 1024 * 1024,
     gigabyte |-> 1024 * 1024 * 1024]

\* time_type_dict
time_type_dict ==
    [s |-> 1, seconds |-> 1, second |-> 1,
     m |-> 60, minutes |-> 60, minute |-> 60,
     h |-> 60 * 60, hours |-> 60 * 60, hour |-> 60 * 60,
     d |-> 60 * 60 * 24, days |-> 60 * 60 * 24, day |-> 60 * 60 * 24]

\* an amount string "<integer> <unit>", already split on the blank
Amt(n, unit) == [n |-> n, unit |-> unit]

\* an amount string with no blank in it, such as "2kb": amt.split() yields
\* one token
Unsplit == [n |-> 0, unit |-> ""]

\* "size_amt, size_type = amt.split()" raises ValueError
convert_raises(amt) == amt.unit = ""

\* FileGateway.convert_str_to_size
convert_str_to_size(amt) ==
    amt.n * (IF amt.unit \in DOMAIN size_type_dict
             THEN size_type_dict[amt.unit] ELSE 1)

\* FileGateway.convert_str_to_timestamp
convert_str_to_timestamp(amt) ==
    amt.n * (IF amt.unit \in DOMAIN time_type_dict
             THEN time_type_dict[amt.unit] ELSE 1)

\* FileGateway.set_file_rotation raises ValueError: the policy is unset and
\* a conversion the policy type calls for raises
set_file_rotation_raises(gw, rot_type, amt) ==
    /\ gw.rot_type = "NONE"
    /\ \/ rot_type \in {"SIZE", "TIME"} /\ convert_raises(amt[1])
       \/ /\ rot_type = "TIME_SIZE"
          /\ convert_raises(amt[1]) \/ convert_raises(amt[2])

\* FileGateway.rotate_if_needed raises TypeError: a policy type is set, its
\* threshold is None and the measurement is compared with it
rotate_raises(gw, time_amt, size_amt) ==
    /\ gw.rot_amt = <<>>
    /\ \/ gw.rot_type = "SIZE" /\ size_amt # <<>>
       \/ gw.rot_type = "TIME" /\ time_amt # <<>>
       \/ gw.rot_type = "TIME_SIZE" /\ time_amt # <<>> /\ size_amt # <<>>

\* FileGateway.set_file_rotation on a gateway record; amt is one amount, or
\* for TIME_SIZE the pair <<time, size>> of "<time>|<size>"; _rot_amt is
\* <<>> (None), <<x>> or <<time, size>>.  _rot_type is assigned before the
\* conversion, so it is set even when the conversion raises.
set_file_rotation(gw, rot_type, amt) ==
    IF gw.rot_type # "NONE" THEN gw
    ELSE [gw EXCEPT
            !.rot_type = rot_type,
            !.rot_amt =
                IF set_file_rotation_raises(gw, rot_type, amt) THEN gw.rot_amt
                ELSE IF rot_type = "SIZE" THEN <<convert_str_to_size(amt[1])>>
                ELSE IF rot_type = "TIME"
                     THEN <<convert_str_to_timestamp(amt[1])>>
                ELSE IF rot_type = "TIME_SIZE"
                     THEN <<convert_str_to_timestamp(amt[1]),
                            convert_str_to_size(amt[2])>>
                ELSE gw.rot_amt]

\* mutant: the TIME comparison of rotate_if_needed made non-strict
rotate_if_needed_ge(gw, time_amt, size_amt) ==
    IF gw.rot_type = "NONE" THEN FALSE
    ELSE \/ /\ gw.rot_type = "SIZE"
            /\ size_amt # <<>>
            /\ size_amt[1] >= gw.rot_amt[1]
         \/ /\ gw.rot_type = "TIME"
            /\ time_amt # <<>>
            /\ time_amt[1] - gw.start_stamp >= gw.rot_amt[1]
         \/ /\ gw.rot_type = "TIME_SIZE"
            /\ time_amt # <<>> /\ size_amt # <<>>
            /\ \/ time_amt[1] - gw.start_stamp >= gw.rot_amt[1]
               \/ size_amt[1] >= gw.rot_amt[2]

\* FileGateway.rotate_if_needed(time_amt, size_amt); a measurement is <<>>
\* (None, the default) or <<value>>
rotate_if_needed(gw, time_amt, size_amt) ==
    IF gw.rot_type = "NONE" THEN FALSE
    ELSE \/ /\ gw.rot_type = "SIZE"
            /\ size_amt # <<>>
            /\ size_amt[1] >= gw.rot_amt[1]
         \/ /\ gw.rot_type = "TIME"
            /\ time_amt # <<>>
            /\ time_amt[1] - gw.start_stamp > gw.rot_amt[1]
         \/ /\ gw.rot_type = "TIME_SIZE"
            /\ time_amt # <<>> /\ size_amt # <<>>
            /\ \/ time_amt[1] - gw.start_stamp > gw.rot_amt[1]
               \/ size_amt[1] >= gw.rot_amt[2]

\* the segment file a task writes: f"{splitext(file_loc)[0]}_{stamp}.log"
Segment(gw, stamp) == <<gw.file_loc, stamp>>

\* a write to a file opened with mode "a": the file is created when absent
FileAppend(fs, seg, entry) ==
    IF seg \in DOMAIN fs
    THEN [fs EXCEPT ![seg] = Append(@, entry)]
    ELSE (seg :> <<entry>>) @@ fs

\* os.path.getsize: every banner and every line counts as one byte
getsize(fs, seg) == Len(fs[seg])

\* gateway.set_file_rotation(rot_type, amt)
SetFileRotation(g, rot_type, amt) ==
    /\ g \in 1..Len(gateways)
    /\ gateways' = [gateways EXCEPT ![g] = set_file_rotation(@, rot_type, amt)]
    /\ lastCall' = [Call("set_file_rotation") EXCEPT
                        !.lvl = rot_type,
                        !.err = IF set_file_rotation_raises(gateways[g],
                                                            rot_type, amt)
                                THEN "ValueError" ELSE ""]
    /\ UNCHANGED <<lcInstance, metaInstance, composerLevel, registry,
                   loggers, tasks, files, now, nLog>>

\* FileGateway._stream_process after _message_stream.get() returned msg
GwTook(tk, msg) ==
    IF msg = NoLine THEN [tk EXCEPT !.pc = "done", !.msg = <<>>]
    ELSE [tk EXCEPT !.pc = "writing", !.msg = <<msg>>]

\* mutant: the writer also checks the rotation policy when it finds its
\* queue empty
GwLoop_timer(tk, gw) ==
    IF ~gw.logging THEN <<[tk EXCEPT !.pc = "done", !.msg = <<>>], gw>>
    ELSE IF gw.stream = <<>>
         THEN IF rotate_if_needed(gw, <<now>>, <<0>>)
              THEN <<[tk EXCEPT !.pc = "rotating", !.msg = <<>>,
                                !.target = gw.task], gw>>
              ELSE <<[tk EXCEPT !.pc = "waiting", !.msg = <<>>], gw>>
         ELSE <<GwTook(tk, Head(gw.stream)), [gw EXCEPT !.stream = Tail(@)]>>

\* FileGateway._stream_process from the head of its while loop up to the
\* next await that suspends: <<task, gateway>>
GwLoop(tk, gw) ==
    IF ~gw.logging THEN <<[tk EXCEPT !.pc = "done", !.msg = <<>>], gw>>
    ELSE IF gw.stream = <<>>
         THEN <<[tk EXCEPT !.pc = "waiting", !.msg = <<>>], gw>>
         ELSE <<GwTook(tk, Head(gw.stream)), [gw EXCEPT !.stream = Tail(@)]>>

\* a step of writer task t that leaves the task as r[1] and its gateway
\* as r[2]
TaskStep(t, r) ==
    /\ tasks' = [tasks EXCEPT ![t] = r[1]]
    /\ gateways' = [gateways EXCEPT ![tasks[t].gw] = r[2]]
    /\ lastCall' = NoCall
    /\ UNCHANGED <<lcInstance, metaInstance, composerLevel, registry,
                   loggers, now, nLog>>

\* _stream_process starts: the segment named by the gateway's current
\* _start_stamp is opened for append, the banner is written and flushed
TaskOpen(t) ==
    /\ t \in 1..Len(tasks)
    /\ tasks[t].pc = "start" /\ ~tasks[t].cancel
    /\ LET gw == gateways[tasks[t].gw]
           tk == [tasks[t] EXCEPT !.stamp = gw.start_stamp]
       IN  /\ files' = FileAppend(files, Segment(gw, gw.start_stamp), Banner)
           /\ TaskStep(t, GwLoop(tk, gw))

\* _stream_process starts and os.makedirs or aiofiles.open raises: both
\* stand before the try statement, so the exception ends the task
TaskOpenFails(t) ==
    /\ t \in 1..Len(tasks)
    /\ tasks[t].pc = "start" /\ ~tasks[t].cancel
    /\ TaskStep(t, <<[tasks[t] EXCEPT !.pc = "done"], gateways[tasks[t].gw]>>)
    /\ UNCHANGED files

\* the writer, suspended in _message_stream.get(), is woken by an item
TaskWake(t) ==
    /\ t \in 1..Len(tasks)
    /\ tasks[t].pc = "waiting" /\ ~tasks[t].cancel
    /\ LET gw == gateways[tasks[t].gw]
       IN  /\ gw.stream # <<>>
           /\ TaskStep(t, <<GwTook(tasks[t], Head(gw.stream)),
                            [gw EXCEPT !.stream = Tail(@)]>>)
    /\ UNCHANGED files

\* FileGateway._rotate_file up to "await self._processing_task": the task in
\* the gateway's handle is cancelled (the running task itself, when it is
\* the one in the handle)
rotate_begin(tks, t, target) ==
    [i \in 1..Len(tks) |->
        IF i = t THEN [tks[i] EXCEPT !.pc = "rotating", !.msg = <<>>,
                                     !.target = target]
        ELSE IF i = target /\ tks[i].pc # "done"
             THEN [tks[i] EXCEPT !.cancel = TRUE]
        ELSE tks[i]]

\* mutant: the rotation check made before the write, the line being left
\* unwritten when the check fires
TaskWrite_unwritten(t) ==
    /\ t \in 1..Len(tasks)
    /\ tasks[t].pc = "writing" /\ ~tasks[t].cancel
    /\ LET tk  == tasks[t]
           gw  == gateways[tk.gw]
           seg == Segment(gw, tk.stamp)
           fs  == FileAppend(files, seg, tk.msg[1])
       IN  IF rotate_if_needed(gw, <<now>>, <<getsize(fs, seg)>>)
           THEN /\ tasks' = rotate_begin(tasks, t, gw.task)
                /\ lastCall' = NoCall
                /\ UNCHANGED <<lcInstance, metaInstance, composerLevel,
                               registry, loggers, gateways, files, now, nLog>>
           ELSE files' = fs /\ TaskStep(t, GwLoop(tk, gw))

\* IOstream.write(msg + "\n") and flush() complete; the rotation check
\* follows, and either the loop goes round or the file is closed and
\* _rotate_file begins
TaskWrite(t) ==
    /\ t \in 1..Len(tasks)
    /\ tasks[t].pc = "writing" /\ ~tasks[t].cancel
    /\ LET tk  == tasks[t]
           gw  == gateways[tk.gw]
           seg == Segment(gw, tk.stamp)
           fs  == FileAppend(files, seg, tk.msg[1])
       IN  /\ files' = fs
           /\ IF rotate_if_needed(gw, <<now>>, <<getsize(fs, seg)>>)
              THEN /\ tasks' = rotate_begin(tasks, t, gw.task)
                   /\ lastCall' = NoCall
                   /\ UNCHANGED <<lcInstance, metaInstance, composerLevel,
                                  registry, loggers, gateways, now, nLog>>
              ELSE TaskStep(t, GwLoop(tk, gw))

\* FileGateway._rotate_file after its await: the awaited task is done (or
\* was the running task itself, or the running task was cancelled while it
\* waited; CancelledError is swallowed in all three cases); a new
\* _start_stamp is taken and create_task is called twice, the handle
\* keeping the second task
TaskRotate(t) ==
    /\ t \in 1..Len(tasks)
    /\ tasks[t].pc = "rotating"
    /\ \/ tasks[t].target = t
       \/ tasks[tasks[t].target].pc = "done"
       \/ tasks[t].cancel
    /\ Len(tasks) + 2 <= MaxTasks
    /\ LET g == tasks[t].gw
       IN  /\ tasks' = [tasks EXCEPT ![t].pc = "done", ![t].cancel = FALSE]
                          \o <<NewTask(g), NewTask(g)>>
           /\ gateways' = [gateways EXCEPT ![g].start_stamp = now,
                                           ![g].task = Len(tasks) + 2]
    /\ lastCall' = NoCall
    /\ UNCHANGED <<lcInstance, metaInstance, composerLevel, registry,
                   loggers, files, now, nLog>>

\* a cancelled writer task is resumed with CancelledError (or is cancelled
\* before it ran): it leaves the loop; a line whose write was in flight in
\* the executor reaches the file or not
TaskCancelled(t) ==
    /\ t \in 1..Len(tasks)
    /\ tasks[t].cancel
    /\ tasks[t].pc \in {"start", "waiting", "writing", "reporting"}
    /\ \/ UNCHANGED files
       \/ /\ tasks[t].pc = "writing"
          /\ files' = FileAppend(files,
                          Segment(gateways[tasks[t].gw], tasks[t].stamp),
                          tasks[t].msg[1])
    /\ tasks' = [tasks EXCEPT ![t].pc = "done", ![t].msg = <<>>,
                              ![t].cancel = FALSE]
    /\ lastCall' = NoCall
    /\ UNCHANGED <<lcInstance, metaInstance, composerLevel, registry,
                   loggers, gateways, now, nLog>>

\* mutant: an exception raised while a line is written ends the writer
TaskWriteFails_dies(t) ==
    /\ t \in 1..Len(tasks)
    /\ tasks[t].pc = "writing" /\ ~tasks[t].cancel
    /\ LET tk  == tasks[t]
           gw  == gateways[tk.gw]
       IN  /\ \/ UNCHANGED files
              \/ files' = FileAppend(files, Segment(gw, tk.stamp), tk.msg[1])
           /\ TaskStep(t, <<[tk EXCEPT !.pc = "done", !.msg = <<>>], gw>>)

\* IOstream.write raises (the line is not in the file), or flush() or
\* os.path.getsize raises after the line reached the file: the
\* "except Exception" branch of _stream_process awaits aprint_err
TaskWriteFails(t) ==
    /\ t \in 1..Len(tasks)
    /\ tasks[t].pc = "writing" /\ ~tasks[t].cancel
    /\ LET tk  == tasks[t]
           gw  == gateways[tk.gw]
       IN  /\ \/ UNCHANGED files
              \/ files' = FileAppend(files, Segment(gw, tk.stamp), tk.msg[1])
           /\ TaskStep(t, <<[tk EXCEPT !.pc = "reporting", !.msg = <<>>], gw>>)

\* aprint_err returns: the writer's while loop goes round
TaskReported(t) ==
    /\ t \in 1..Len(tasks)
    /\ tasks[t].pc = "reporting" /\ ~tasks[t].cancel
    /\ TaskStep(t, GwLoop(tasks[t], gateways[tasks[t].gw]))
    /\ UNCHANGED files

\* the wall clock advances by one second
Tick ==
    /\ now < MaxTime
    /\ now' = now + 1
    /\ lastCall' = NoCall
    /\ UNCHANGED <<lcInstance, metaInstance, composerLevel, registry,
                   loggers, gateways, tasks, files, nLog>>

---------------------------------------------------------------------------
(* The pipeline's specifications.  Each starts in the state two keyword    *)
(* constructions on one destination leave: Loggers "a" and "b" sharing one *)
(* gateway, whose writer task has been created and has not run yet.        *)

PipePath == Resolve("f.log")

\* the state after set_instance(LoggerComposer(level)), Logger(name="a",
\* file="f.log") and Logger(name="b", file="f.log")
PipeInit(levels) ==
    /\ lcInstance = TRUE
    /\ metaInstance = FALSE
    /\ composerLevel \in levels
    /\ now = 0
    /\ registry = <<[key |-> "a", logger |-> 1, file |-> PipePath,
                     gateway |-> 1],
                    [key |-> "b", logger |-> 2, file |-> PipePath,
                     gateway |-> 1]>>
    /\ loggers = <<add_logger_level([NewLoggerObj("a") EXCEPT !.gateway = 1],
                                    composerLevel),
                   add_logger_level([NewLoggerObj("b") EXCEPT !.gateway = 1],
                                    composerLevel)>>
    /\ gateways = <<[NewGatewayObj(PipePath) EXCEPT !.task = 1]>>
    /\ tasks = <<NewTask(1)>>
    /\ files = <<>>
    /\ nLog = 0
    /\ lastCall = [Call("Logger") EXCEPT !.obj = 2, !.made = 2]

\* the steps of Logger l's consumer task
LoggerTask(l) ==
    \/ LoggerRun(l)
    \/ LoggerWake(l)
    \/ LoggerPrinted(l)

\* the steps of a writer task when no rotation policy is set
WriterTask(t) ==
    \/ TaskOpen(t)
    \/ TaskWake(t)
    \/ TaskWrite(t)

(* LogSpec: every severity against every threshold, through to the file *)

LogSevs == Severities \cup {"SIGSTOP"}

LogInit == PipeInit(Thresholds)

LogNext ==
    \/ \E sev \in LogSevs : Log(1, sev)
    \/ LoggerTask(1)
    \/ WriterTask(1)

LogSpec == LogInit /\ [][LogNext]_vars

(* StopSpec: emit and stop() on both Loggers; the event loop runs every    *)
(* ready task, so each task step is weakly fair                            *)

StopSevs == {"DEBUG", "ERROR"}
StopLevels == {"DEBUG", "WARNING", "QUIET"}

StopInit == PipeInit(StopLevels)

StopNext ==
    \/ \E l \in 1..2, sev \in StopSevs : Log(l, sev)
    \/ \E l \in 1..2 : LoggerTask(l)
    \/ \E l \in 1..2 : LoggerCancelled(l)
    \/ \E l \in 1..2 : StopCall(l)
    \/ \E l \in 1..2 : StopReturn(l)
    \/ WriterTask(1)

StopFair ==
    /\ \A l \in 1..2 : WF_vars(LoggerTask(l))
    /\ \A l \in 1..2 : WF_vars(LoggerCancelled(l))
    /\ \A l \in 1..2 : WF_vars(StopReturn(l))
    /\ WF_vars(WriterTask(1))

StopSpec == StopInit /\ [][StopNext]_vars /\ StopFair

(* RotSpec: both Loggers emit while the shared gateway rotates *)

RotLevels == {"DEBUG"}
RotSevs == {"ERROR"}

\* rotation policies the gateway is given
RotPolicies ==
    {<<"SIZE", <<Amt(2, "b")>>>>, <<"TIME", <<Amt(0, "s")>>>>}

RotInit == PipeInit(RotLevels)

RotNext ==
    \/ \E l \in 1..2, sev \in RotSevs : Log(l, sev)
    \/ \E l \in 1..2 : LoggerTask(l)
    \/ \E r \in RotPolicies : SetFileRotation(1, r[1], r[2])
    \/ \E t \in 1..MaxTasks : WriterTask(t)
    \/ \E t \in 1..MaxTasks : TaskRotate(t)
    \/ \E t \in 1..MaxTasks : TaskCancelled(t)
    \/ Tick

RotSpec == RotInit /\ [][RotNext]_vars

(* FailSpec: Logger "a" emits while the processing of an item can raise;  *)
(* WriteFailSpec: Logger "a" emits while the writing of a line can raise. *)
(* The event loop runs every ready task.                                  *)

FailLevels == {"DEBUG"}
FailSevs == {"ERROR"}

FailInit == PipeInit(FailLevels)

\* the steps of Logger l's consumer task, failures included
Consumer(l) ==
    \/ LoggerTask(l)
    \/ LoggerFails(l)
    \/ LoggerReported(l)

\* the steps of a writer task, failures inside its loop included
Writer(t) ==
    \/ WriterTask(t)
    \/ TaskWriteFails(t)
    \/ TaskReported(t)

FailNext ==
    \/ \E sev \in FailSevs : Log(1, sev)
    \/ Consumer(1)
    \/ WriterTask(1)

FailFair == WF_vars(Consumer(1)) /\ WF_vars(WriterTask(1))

FailSpec == FailInit /\ [][FailNext]_vars /\ FailFair

WriteFailNext ==
    \/ \E sev \in FailSevs : Log(1, sev)
    \/ LoggerTask(1)
    \/ Writer(1)

WriteFailFair == WF_vars(LoggerTask(1)) /\ WF_vars(Writer(1))

WriteFailSpec == FailInit /\ [][WriteFailNext]_vars /\ WriteFailFair

(* OpenSpec: both Loggers emit while the log directory or the segment     *)
(* file may fail to open                                                  *)

\* the steps of a writer task whose segment may fail to open
Opener(t) ==
    \/ WriterTask(t)
    \/ TaskOpenFails(t)

OpenNext ==
    \/ \E l \in 1..2, sev \in FailSevs : Log(l, sev)
    \/ \E l \in 1..2 : LoggerTask(l)
    \/ Opener(1)

OpenFair == (\A l \in 1..2 : WF_vars(LoggerTask(l))) /\ WF_vars(Opener(1))

OpenSpec == FailInit /\ [][OpenNext]_vars /\ OpenFair

(* ShareSpec: Logger "a" is sent the drain sentinel while Logger "b",     *)
(* never stopped, emits through the gateway they share                    *)

ShareSevs == {"ERROR", "SIGSTOP"}

ShareNext ==
    \/ \E sev \in ShareSevs : Log(1, sev)
    \/ \E sev \in FailSevs : Log(2, sev)
    \/ \E l \in 1..2 : LoggerTask(l)
    \/ WriterTask(1)

ShareFair == (\A l \in 1..2 : WF_vars(LoggerTask(l))) /\ WF_vars(WriterTask(1))

ShareSpec == FailInit /\ [][ShareNext]_vars /\ ShareFair

(* UnsetSpec: the registry default is NOTSET (an unrecognized level name); *)
(* Logger "a" emits every severity before and after set_level(DEBUG)      *)

UnsetLevels == {"NOTSET"}
UnsetSetLevels == {"DEBUG"}

UnsetInit == PipeInit(UnsetLevels)

UnsetNext ==
    \/ \E sev \in Severities : Log(1, sev)
    \/ \E level \in UnsetSetLevels : SetLevel(1, level)
    \/ LoggerTask(1)
    \/ WriterTask(1)

UnsetSpec == UnsetInit /\ [][UnsetNext]_vars

---------------------------------------------------------------------------
(* Claims about the pipeline *)

\* the Logger object whose name attribute is name
LoggerNamed(name) == CHOOSE l \in 1..Len(loggers) : loggers[l].name = name

\* every line that has left a Logger: on a gateway's queue, held by a writer
\* task, or in a segment
Forwarded ==
    UNION {{gateways[g].stream[i] : i \in 1..Len(gateways[g].stream)} :
              g \in 1..Len(gateways)}
    \cup UNION {{tasks[t].msg[i] : i \in 1..Len(tasks[t].msg)} :
                  t \in 1..Len(tasks)}
    \cup UNION {{files[k][i] : i \in 1..Len(files[k])} : k \in DOMAIN files}

\* every entry written to a segment
AllLines(fs) == UNION {{fs[k][i] : i \in 1..Len(fs[k])} : k \in DOMAIN fs}

\* nothing that Logger l was given before stop() was called is still on its
\* queue or held by its consumer
Drained(l) ==
    /\ \A i \in 1..Len(loggers[l].queue) :
          loggers[l].queue[i].sev = "NONE"
          \/ loggers[l].queue[i].n > loggers[l].mark
    /\ \A i \in 1..Len(loggers[l].held) :
          loggers[l].held[i].n > loggers[l].mark

\* C1: every message accepted and enqueued before stop() was called has
\* been forwarded to the gateway by the time stop() returns (checked under
\* StopSpec: a stop() that was called returns, with the queue drained).
C1_StopDrains ==
    \A l \in 1..2 :
        (loggers[l].stopPc \in {"joining", "awaiting"})
            ~> (loggers[l].stopPc = "returned" /\ Drained(l))

\* C2: under fair scheduling every call to Logger.stop() eventually
\* returns, also when messages had been enqueued before the call.
C2_StopReturns ==
    \A l \in 1..2 :
        (loggers[l].stopPc \in {"joining", "awaiting"})
            ~> (loggers[l].stopPc = "returned")

\* C3: no message whose severity is below its Logger's threshold, and no
\* message at all of a QUIET Logger, is on a gateway's queue or in a segment.
C3_BelowThresholdNeverForwarded ==
    \A x \in Forwarded :
        x.level \in Severities
        => LET lg == loggers[LoggerNamed(x.name)]
           IN  /\ lg.level # "QUIET"
               /\ LogLevel[x.level] >= LogLevel[lg.level]

\* C3 witness: at threshold WARNING the first call (the only one missing)
\* left nothing, and the WARNING and ERROR calls after it are in the
\* segment, in that order
C3_Witness ==
    /\ loggers[1].level = "WARNING"
    /\ loggers[1].queue = <<>> /\ loggers[1].held = <<>>
    /\ gateways[1].stream = <<>>
    /\ \E k \in DOMAIN files :
          files[k] = <<Banner,
                       [name |-> "a", level |-> "WARNING", n |-> 2],
                       [name |-> "a", level |-> "ERROR", n |-> 3]>>

\* C4: for every severity s and threshold t, log(s, text) appends (s, text)
\* to the Logger's queue iff rank(s) >= rank(t) and t is not QUIET (and
\* otherwise leaves the queue as it was).
C4_AppendsIffAccepted ==
    [][\A s \in Severities :
          Log(1, s)
          => IF LogLevel[s] >= LogLevel[loggers[1].level]
                /\ loggers[1].level # "QUIET"
             THEN loggers'[1].queue
                    = Append(loggers[1].queue, Item(s, nLog + 1))
             ELSE loggers'[1].queue = loggers[1].queue]_vars

\* C4 witness: at threshold FATAL the second call (EXCEPTION) was appended
\* and the first and third calls were not
C4_Witness ==
    /\ loggers[1].level = "FATAL"
    /\ loggers[1].queue = <<Item("EXCEPTION", 2)>>
    /\ loggers[1].pc = "start"
    /\ nLog = 3

\* C5: the lines a Logger forwards are written to the segments in the order
\* of its log() calls: a line being written is later than every line of the
\* same Logger already in a segment.
C5_WrittenInEmitOrder ==
    [][\A x \in AllLines(files') \ AllLines(files) :
          \A y \in AllLines(files) :
              (x.level # "BANNER" /\ y.name = x.name) => y.n < x.n]_vars

---------------------------------------------------------------------------
(* Claims about the registry, checked under Spec *)

\* the gateways of one destination path whose consumer task is live
LiveGatewaysOf(path) ==
    {g \in 1..Len(gateways) :
        /\ gateways[g].file_loc = path
        /\ gateways[g].task # 0
        /\ Live(gateways[g].task)}

\* C6: any two registered Loggers with equal destination paths hold the same
\* File Gateway (in the directory and in the Logger's own reference), and
\* entries with different paths hold different Gateways.
C6_GatewayPerPath ==
    \A i, j \in 1..Len(registry) :
        /\ loggers[registry[i].logger].gateway = registry[i].gateway
        /\ (registry[i].file = registry[j].file)
              <=> (registry[i].gateway = registry[j].gateway)

\* C6 witness: two different Loggers registered on one path share a Gateway
C6_Witness ==
    \E i, j \in 1..Len(registry) :
        /\ registry[i].logger # registry[j].logger
        /\ registry[i].file = registry[j].file
        /\ registry[i].gateway = registry[j].gateway

\* C7: at every reachable state at most one File Gateway with a live
\* consumer task exists for any destination path.
C7_OneLiveGatewayPerPath ==
    \A g \in 1..Len(gateways) :
        Cardinality(LiveGatewaysOf(gateways[g].file_loc)) <= 1

\* C8: creating a Logger with a name that is already registered returns the
\* registered Logger, constructs no Logger, Gateway or task and leaves the
\* directory unchanged, whatever destination is given.
C8_CreateExistingName ==
    [][\A name \in GivenNames, file \in GivenFiles, kw \in BOOLEAN :
          (lcInstance /\ Contains(registry, name) /\ NewLogger(name, file, kw))
          => /\ lastCall'.obj = registry[EntryOf(registry, name)].logger
             /\ lastCall'.made = 0
             /\ <<registry, loggers, gateways, tasks>>'
                    = <<registry, loggers, gateways, tasks>>]_vars

\* C9: on a Logger just obtained from the registry (constructed by the
\* previous call, so set_level was never called on it), set_level(L) sets
\* the threshold to L, for every L and every registry default.
C9_FirstSetLevelSets ==
    [][\A i \in 1..Len(loggers), level \in SetLevels :
          (lastCall.op = "Logger" /\ lastCall.made = i /\ SetLevel(i, level))
          => loggers'[i].level = level]_vars

\* C10: once a Logger's threshold holds a set value (not NOTSET), no later
\* call changes it.
C10_FirstAssignmentWins ==
    [][\A i \in 1..Len(loggers) :
          loggers[i].level # "NOTSET"
          => loggers'[i].level = loggers[i].level]_vars

\* C10 witness: set_level(L) has just been called on a Logger whose threshold
\* is set to a different level, under a registry whose default was unset
C10_Witness ==
    /\ lastCall.op = "set_level"
    /\ composerLevel = "NOTSET"
    /\ loggers[lastCall.obj].level \notin {"NOTSET", lastCall.lvl}
    /\ lastCall.lvl # "NOTSET"

---------------------------------------------------------------------------
(* Claims about the registry's bulk operations, checked under Spec *)

\* the Logger objects the directory holds
Registered == {registry[k].logger : k \in 1..Len(registry)}

\* C11: after set_level_if_not_set() every registered Logger whose threshold
\* was unset (NOTSET) has the composer's level, and every registered Logger
\* whose threshold was set keeps the threshold it had before the call.
C11_DefaultOnlyWhereUnset ==
    [][SetLevelIfNotSet
       => \A i \in Registered :
             IF loggers[i].level = "NOTSET"
             THEN loggers'[i].level = composerLevel
             ELSE loggers'[i].level = loggers[i].level]_vars

\* C11 witness: the call has just been made with one registered Logger
\* whose threshold was unset and another whose threshold had been set to a
\* level that is not the composer's
C11_Witness ==
    /\ lastCall.op = "set_level_if_not_set"
    /\ \E i, j \in Registered :
          /\ loggers[i].level = "NOTSET"
          /\ loggers[j].level \notin {"NOTSET", composerLevel}

\* C12: after stop_everything() every Logger and every File Gateway that
\* was registered at the call is stopped: its running flag is cleared and
\* its consumer task has terminated.
C12_StopEverythingStops ==
    [][StopLogging
       => \A k \in 1..Len(ComposerReg) :
             LET l == ComposerReg[k].logger
                 g == ComposerReg[k].gateway
             IN  /\ ~loggers'[l].logging
                 /\ loggers'[l].pc \in {"none", "done"}
                 /\ ~gateways'[g].logging
                 /\ tasks'[gateways'[g].task].pc = "done"]_vars

\* C13: during stop_everything() stop() is called on every registered
\* Logger before it is called on any File Gateway.
C13_LoggersBeforeGateways ==
    lastCall.op = "stop_logging"
    => \A i, j \in 1..Len(lastCall.calls) :
          (lastCall.calls[i].kind = "Logger"
           /\ lastCall.calls[j].kind = "FileGateway") => i < j

---------------------------------------------------------------------------
(* Claims about rotation, checked under RotSpec *)

\* the places where the line of log() call n stands after it left its
\* Logger: positions in segments, positions on gateway queues, writer tasks
\* holding it
InFiles(n) ==
    UNION {{<<k, i>> : i \in {j \in 1..Len(files[k]) : files[k][j].n = n}} :
              k \in DOMAIN files}

InStream(n) ==
    UNION {{<<g, i>> : i \in {j \in 1..Len(gateways[g].stream) :
                                  gateways[g].stream[j].n = n}} :
              g \in 1..Len(gateways)}

InTasks(n) ==
    {t \in 1..Len(tasks) : tasks[t].msg # <<>> /\ tasks[t].msg[1].n = n}

\* the message of log() call n is still on a Logger's queue or held by a
\* Logger's consumer
InLogger(n) ==
    \E l \in 1..Len(loggers) :
        \/ \E i \in 1..Len(loggers[l].queue) : loggers[l].queue[i].n = n
        \/ \E i \in 1..Len(loggers[l].held) : loggers[l].held[i].n = n

\* C15: every rotation records a segment start timestamp strictly greater
\* than that of the segment it supersedes.
C15_RotationStampGrows ==
    [][\A t \in 1..Len(tasks) :
          TaskRotate(t)
          => gateways'[tasks[t].gw].start_stamp
                > gateways[tasks[t].gw].start_stamp]_vars

\* C16: every line enqueued to the gateway is written exactly once: at any
\* moment it stands in exactly one place (the queue, a writer, or one
\* position of one segment), never in none and never in two.
C16_EachLineOnce ==
    \A n \in 1..nLog :
        Cardinality(InFiles(n)) + Cardinality(InStream(n))
            + Cardinality(InTasks(n))
          = IF InLogger(n) THEN 0 ELSE 1

\* C17: every line a writer appends lands in the gateway's newest segment,
\* the one named by the start timestamp recorded last.
C17_LinesLandInNewestSegment ==
    [][\A k \in DOMAIN files' :
          (/\ files'[k][Len(files'[k])].level # "BANNER"
           /\ (k \notin DOMAIN files \/ files'[k] # files[k]))
          => k = Segment(gateways[1], gateways[1].start_stamp)]_vars

\* C18: every File Gateway has at most one live consumer task.
C18_OneLiveWriter ==
    \A g \in 1..Len(gateways) :
        Cardinality({t \in 1..Len(tasks) : tasks[t].gw = g /\ Live(t)}) <= 1

---------------------------------------------------------------------------
(* Claims about the sentinel and the lazy consumer, checked under LogSpec *)

\* C19: at every threshold, QUIET included, log(SIGSTOP) appends the
\* sentinel to the Logger's queue.
C19_SentinelEnqueuedAtEveryThreshold ==
    [][Log(1, "SIGSTOP")
       => loggers'[1].queue = Append(loggers[1].queue, None)]_vars

\* C20: a log() call whose message is rejected by the threshold leaves a
\* Logger that has no consumer task without one; the task is created only
\* by a call whose message is accepted.
C20_TaskOnlyOnAccepted ==
    [][\A s \in Severities :
          (Log(1, s) /\ ~loggers[1].task)
          => (loggers'[1].task <=> Accepts(loggers[1].level, s))]_vars

---------------------------------------------------------------------------
(* Claims about a stopped Logger, checked under StopSpec *)

\* stop() has returned on Logger l: the running flag is cleared and the
\* task handle is None
Stopped(l) == ~loggers[l].logging /\ ~loggers[l].task

\* C21: after stop() has returned on a Logger, no later log() call starts a
\* consumer task for it or gets a line of it forwarded to its gateway.
C21_StoppedStaysStopped ==
    [][\A l \in 1..Len(loggers) :
          Stopped(l)
          => /\ ~loggers'[l].task /\ ~loggers'[l].logging
             /\ loggers'[l].pc \in {"none", "done"}
             /\ \A x \in Forwarded' : x.name # loggers[l].name]_vars

\* C21 witness: a Logger that had a consumer was stopped, stop() returned,
\* and a message accepted afterwards sits on its queue with no consumer
C21_Witness ==
    \E l \in 1..Len(loggers) :
        /\ loggers[l].stopPc = "returned"
        /\ loggers[l].pc = "done"
        /\ ~loggers[l].task
        /\ loggers[l].queue # <<>>

---------------------------------------------------------------------------
(* PolicySpec: set_file_rotation called with every policy type, between    *)
(* emits and clock ticks                                                   *)

\* the (rot_type, amt) arguments callers pass; "<time>|<size>" is given as
\* the pair of its two halves
PolicyArgs ==
    {<<"NONE", <<Amt(1, "s")>>>>,
     <<"SIZE", <<Amt(2, "kb")>>>>,
     <<"TIME", <<Amt(1, "m")>>>>,
     <<"TIME_SIZE", <<Amt(1, "h"), Amt(1, "mb")>>>>}

\* the measurements rotate_if_needed is called with: None, and values at
\* and next to the thresholds of PolicyArgs
TimeInputs == {<<>>, <<60>>, <<61>>, <<3601>>}
SizeInputs == {<<>>, <<2047>>, <<2048>>, <<1048576>>}

\* gateway.rotate_if_needed(time_amt, size_amt); the value returned is
\* recorded as "True" or "False", the exception raised as "TypeError"
RotateCheck(g, time_amt, size_amt) ==
    /\ g \in 1..Len(gateways)
    /\ lastCall' =
          IF rotate_raises(gateways[g], time_amt, size_amt)
          THEN [Call("rotate_if_needed") EXCEPT !.err = "TypeError"]
          ELSE [Call("rotate_if_needed") EXCEPT
                   !.lvl = IF rotate_if_needed(gateways[g], time_amt,
                                               size_amt)
                           THEN "True" ELSE "False"]
    /\ UNCHANGED <<lcInstance, metaInstance, composerLevel, registry, loggers,
                   gateways, tasks, files, now, nLog>>

PolicyNext ==
    \/ \E r \in PolicyArgs : SetFileRotation(1, r[1], r[2])
    \/ \E tm \in TimeInputs, sz \in SizeInputs : RotateCheck(1, tm, sz)
    \/ \E sev \in RotSevs : Log(1, sev)
    \/ LoggerTask(1)
    \/ Tick

PolicySpec == RotInit /\ [][PolicyNext]_vars

(* ParseSpec: set_file_rotation is also given amounts that do not parse *)

BadArgs ==
    {<<"SIZE", <<Unsplit>>>>,
     <<"TIME", <<Unsplit>>>>,
     <<"TIME_SIZE", <<Amt(1, "h"), Unsplit>>>>}

ParseNext ==
    \/ \E r \in PolicyArgs \cup BadArgs : SetFileRotation(1, r[1], r[2])
    \/ \E tm \in TimeInputs, sz \in SizeInputs : RotateCheck(1, tm, sz)
    \/ \E sev \in RotSevs : Log(1, sev)
    \/ LoggerTask(1)

ParseSpec == RotInit /\ [][ParseNext]_vars

\* C22: a set_file_rotation call that follows an earlier set_file_rotation
\* call leaves the gateway's policy type and threshold as they were, for
\* every pair of policies from NONE, SIZE, TIME, TIME_SIZE.
C22_PolicySetOnce ==
    [][\A r \in PolicyArgs :
          (lastCall.op = "set_file_rotation"
           /\ SetFileRotation(1, r[1], r[2]))
          => /\ gateways'[1].rot_type = gateways[1].rot_type
             /\ gateways'[1].rot_amt = gateways[1].rot_amt]_vars

---------------------------------------------------------------------------
(* Claims about the registry's errors *)

\* C23: set_instance when a composer is already installed (by an earlier
\* set_instance or lazily by the first Logger construction) raises
\* RuntimeError and leaves the installed composer and its directory as
\* they were.
C23_SecondSetInstanceFails ==
    [][\A str \in InstanceLevels :
          (lcInstance /\ SetInstance(str))
          => /\ lastCall'.err = "RuntimeError"
             /\ UNCHANGED <<lcInstance, metaInstance, composerLevel,
                            registry>>]_vars

\* C23 witness: set_instance has just failed on a composer that the first
\* Logger construction created and that holds a Logger
C23_Witness ==
    /\ lastCall.op = "set_instance"
    /\ lastCall.err = "RuntimeError"
    /\ metaInstance
    /\ registry # <<>>

---------------------------------------------------------------------------
(* DirSpec: the directory's own methods, called on the installed composer  *)
(* next to keyword constructions                                           *)

\* composer.get_logger(name)
GetLogger(name) ==
    /\ lcInstance
    /\ lastCall' = IF ~Contains(registry, name)
                   THEN [Call("get_logger") EXCEPT !.err = "ValueError"]
                   ELSE [Call("get_logger") EXCEPT
                            !.obj = registry[EntryOf(registry, name)].logger]
    /\ UNCHANGED <<lcInstance, metaInstance, composerLevel, registry, loggers,
                   gateways, tasks, files, now, nLog>>

\* mutant: add_logger without its "already exists" test
AddLogger_unchecked(name, i) ==
    /\ lcInstance
    /\ i \in 1..Len(loggers)
    /\ LET g  == loggers[i].gateway
           st == start(gateways, tasks, g)
       IN  /\ loggers' = [loggers EXCEPT
                             ![i] = add_logger_level(@, composerLevel)]
           /\ gateways' = st[1]
           /\ tasks' = st[2]
           /\ registry' = Append(registry,
                              [key |-> name, logger |-> i,
                               file |-> gateways[g].file_loc, gateway |-> g])
           /\ lastCall' = [Call("add_logger") EXCEPT !.obj = i]
    /\ UNCHANGED <<lcInstance, metaInstance, composerLevel, files, now, nLog>>

\* composer.add_logger(name, logger, file_location, gateway) called with
\* Logger object i, its own gateway and that gateway's path
AddLogger(name, i) ==
    /\ lcInstance
    /\ i \in 1..Len(loggers)
    /\ IF Contains(registry, name)
       THEN /\ lastCall' = [Call("add_logger") EXCEPT !.err = "ValueError"]
            /\ UNCHANGED <<registry, loggers, gateways, tasks>>
       ELSE LET g  == loggers[i].gateway
                st == start(gateways, tasks, g)
            IN  /\ loggers' = [loggers EXCEPT
                                  ![i] = add_logger_level(@, composerLevel)]
                /\ gateways' = st[1]
                /\ tasks' = st[2]
                /\ registry' = Append(registry,
                                   [key |-> name, logger |-> i,
                                    file |-> gateways[g].file_loc,
                                    gateway |-> g])
                /\ lastCall' = [Call("add_logger") EXCEPT !.obj = i]
    /\ UNCHANGED <<lcInstance, metaInstance, composerLevel, files, now, nLog>>

DirNext ==
    \/ \E name \in GivenNames, file \in GivenFiles : NewLogger(name, file, TRUE)
    \/ \E str \in InstanceLevels : SetInstance(str)
    \/ \E name \in GivenNames : GetLogger(name)
    \/ \E name \in GivenNames, i \in 1..MaxLoggers : AddLogger(name, i)
    \/ \E name \in GivenNames : RemoveLogger(name)
    \/ \E i \in 1..MaxLoggers, level \in SetLevels : SetLevel(i, level)

DirSpec == Init /\ [][DirNext]_vars

\* C24: get_logger and remove_logger of a name that is not registered, and
\* add_logger under a name that is registered, each raise ValueError and
\* leave the directory, every Logger and every gateway and task unchanged.
C24_DirectoryErrors ==
    [][/\ \A name \in GivenNames :
             (/\ lcInstance /\ ~Contains(registry, name)
              /\ (GetLogger(name) \/ RemoveLogger(name)))
             => /\ lastCall'.err = "ValueError"
                /\ UNCHANGED <<registry, loggers, gateways, tasks>>
       /\ \A name \in GivenNames, i \in 1..Len(loggers) :
             (lcInstance /\ Contains(registry, name) /\ AddLogger(name, i))
             => /\ lastCall'.err = "ValueError"
                /\ UNCHANGED <<registry, loggers, gateways, tasks>>]_vars

\* C24 witness: add_logger has just failed for a Logger whose threshold is
\* not the composer's level (the assignment add_logger would have made)
C24_Witness ==
    /\ lastCall.op = "add_logger"
    /\ lastCall.err = "ValueError"
    /\ \E i \in 1..Len(loggers) : loggers[i].level # composerLevel

---------------------------------------------------------------------------
(* Claims about emit as seen by its caller, checked under StopSpec *)

\* the part of a Logger that is neither its queue nor its consumer-task
\* handle (the task object and its starting point)
OutsideQueueAndTask(lg) ==
    [name |-> lg.name, level |-> lg.level, held |-> lg.held,
     logging |-> lg.logging, gateway |-> lg.gateway, stopPc |-> lg.stopPc,
     mark |-> lg.mark]

\* C25: log() completes in one step of its caller in every state of the
\* Logger and the gateway (it is never blocked), and it changes nothing but
\* that Logger's queue and consumer-task handle.
C25_EmitNeverWaits ==
    /\ [](\A l \in 1..2, sev \in StopSevs :
            nLog < MaxLog => ENABLED Log(l, sev))
    /\ [][\A l \in 1..2, sev \in StopSevs :
             Log(l, sev)
             => /\ \A j \in 1..Len(loggers) :
                      j # l => loggers'[j] = loggers[j]
                /\ OutsideQueueAndTask(loggers'[l])
                      = OutsideQueueAndTask(loggers[l])
                /\ UNCHANGED <<registry, gateways, tasks, files>>]_vars

\* C25 witness: a message emitted after stop() was called sits on the queue
\* of a Logger whose stop() is waiting for the queue to drain, while the
\* gateway's writer holds a line it is writing
C25_Witness ==
    \E l \in 1..2 :
        /\ loggers[l].stopPc = "joining"
        /\ \E i \in 1..Len(loggers[l].queue) :
              loggers[l].queue[i].n > loggers[l].mark
        /\ tasks[1].pc = "writing"

---------------------------------------------------------------------------
(* FileGateway.stop and a repeated FileGateway.start *)

\* await gateway.stop() is called: the flag is cleared, None is put on the
\* message stream, the task in the handle is cancelled and awaited (a task
\* that is already done is awaited without suspending)
GwStopCall(g) ==
    /\ g \in 1..Len(gateways)
    /\ gateways[g].stopPc \in {"idle", "returned"}
    /\ Len(gateways[g].stream) <= MaxLog
    /\ LET gw == [gateways[g] EXCEPT !.logging = FALSE,
                                     !.stream = Append(@, NoLine)]
           t  == gw.task
       IN  IF t = 0 \/ tasks[t].pc = "done"
           THEN /\ gateways' = [gateways EXCEPT
                                  ![g] = [gw EXCEPT !.stopPc = "returned"]]
                /\ UNCHANGED tasks
           ELSE /\ gateways' = [gateways EXCEPT
                                  ![g] = [gw EXCEPT !.stopPc = "awaiting",
                                                    !.stopTask = t]]
                /\ tasks' = [tasks EXCEPT ![t].cancel = TRUE]
    /\ lastCall' = NoCall
    /\ UNCHANGED <<lcInstance, metaInstance, composerLevel, registry,
                   loggers, files, now, nLog>>

\* the awaited task is done: stop() returns
GwStopReturn(g) ==
    /\ g \in 1..Len(gateways)
    /\ gateways[g].stopPc = "awaiting"
    /\ tasks[gateways[g].stopTask].pc = "done"
    /\ gateways' = [gateways EXCEPT ![g].stopPc = "returned"]
    /\ lastCall' = NoCall
    /\ UNCHANGED <<lcInstance, metaInstance, composerLevel, registry,
                   loggers, tasks, files, now, nLog>>

\* gateway.start() is called again (add_logger calls it for every Logger
\* registered on the gateway)
GwStart(g) ==
    /\ g \in 1..Len(gateways)
    /\ Len(tasks) < MaxTasks
    /\ LET st == start(gateways, tasks, g)
       IN  gateways' = st[1] /\ tasks' = st[2]
    /\ lastCall' = Call("start")
    /\ UNCHANGED <<lcInstance, metaInstance, composerLevel, registry,
                   loggers, files, now, nLog>>

(* HaltSpec: one Logger emits, the gateway rotates by size and is stopped *)

HaltPolicies == {<<"SIZE", <<Amt(2, "b")>>>>}

HaltNext ==
    \/ \E sev \in RotSevs : Log(1, sev)
    \/ LoggerTask(1)
    \/ \E r \in HaltPolicies : SetFileRotation(1, r[1], r[2])
    \/ \E t \in 1..MaxTasks : WriterTask(t)
    \/ \E t \in 1..MaxTasks : TaskRotate(t)
    \/ \E t \in 1..MaxTasks : TaskCancelled(t)
    \/ GwStopCall(1)
    \/ GwStopReturn(1)
    \/ GwStart(1)

HaltSpec == RotInit /\ [][HaltNext]_vars

\* C26: when FileGateway.stop() has returned, every line that was on the
\* gateway's queue when stop() was called (the lines ahead of the None that
\* stop() put) has left the queue for a segment.
C26_GatewayStopDrains ==
    \A g \in 1..Len(gateways) :
        gateways[g].stopPc = "returned"
        => (gateways[g].stream = <<>> \/ Head(gateways[g].stream) = NoLine)

\* C27: when FileGateway.stop() has returned, the gateway has no live
\* consumer task (so no open segment handle), also after rotations.
C27_GatewayStopLeavesNoWriter ==
    \A g \in 1..Len(gateways) :
        gateways[g].stopPc = "returned"
        => \A t \in 1..Len(tasks) : tasks[t].gw = g => ~Live(t)

---------------------------------------------------------------------------
(* Claims about segments and the rotation trigger, checked under RotSpec *)

\* C28: every segment file holds the banner exactly once, as its first
\* entry, for the first segment and for every segment a rotation opens.
C28_BannerOnceAndFirst ==
    \A k \in DOMAIN files :
        /\ files[k][1] = Banner
        /\ \A i \in 2..Len(files[k]) : files[k][i] # Banner

\* writer task t triggers a rotation in this step: its rotation check
\* fires and it enters _rotate_file
Trigger(t) == tasks[t].pc # "rotating" /\ tasks'[t].pc = "rotating"

C30_RotatesOnlyAfterWrite ==
    [][/\ \A t \in 1..Len(tasks) :
             Trigger(t)
             => /\ tasks[t].pc = "writing"
                /\ AllLines(files') # AllLines(files)
       /\ \A g \in 1..Len(gateways) :
             gateways'[g].start_stamp # gateways[g].start_stamp
             => \E t \in 1..Len(tasks) :
                   /\ tasks[t].gw = g
                   /\ tasks[t].pc = "rotating"
                   /\ tasks'[t].pc = "done"]_vars

\* C30 witness: under the TIME policy the segment is older than the
\* threshold, a line was written to it before, the queue is empty and the
\* only writer waits: no rotation has happened
C30_Witness ==
    /\ gateways[1].rot_type = "TIME"
    /\ now - gateways[1].start_stamp > gateways[1].rot_amt[1]
    /\ gateways[1].stream = <<>>
    /\ Len(tasks) = 1
    /\ tasks[1].pc = "waiting"
    /\ \E x \in AllLines(files) : x.n >= 1

---------------------------------------------------------------------------
(* Claims about the rotation decision and the policy's threshold string,   *)
(* checked under PolicySpec                                                *)

\* C31: rotate_if_needed is true exactly when the policy is SIZE and the
\* size is at least the size threshold, or the policy is TIME and the
\* segment's age exceeds the time threshold, or the policy is TIME_SIZE and
\* one of the two holds; it is false under NONE and whenever a measurement
\* the policy needs is absent.
C31_RotationDecision ==
    [][\A tm \in TimeInputs, sz \in SizeInputs :
          RotateCheck(1, tm, sz)
          => LET gw    == gateways[1]
                 big   == sz # <<>> /\ sz[1] >= gw.rot_amt[Len(gw.rot_amt)]
                 old   == tm # <<>> /\ tm[1] - gw.start_stamp > gw.rot_amt[1]
                 yes   == \/ gw.rot_type = "SIZE" /\ big
                          \/ gw.rot_type = "TIME" /\ old
                          \/ /\ gw.rot_type = "TIME_SIZE"
                             /\ tm # <<>> /\ sz # <<>>
                             /\ (big \/ old)
             IN  lastCall'.lvl = IF yes THEN "True" ELSE "False"]_vars

\* C31 witness: under TIME_SIZE the check has just returned True
C31_Witness ==
    /\ lastCall.op = "rotate_if_needed"
    /\ lastCall.lvl = "True"
    /\ gateways[1].rot_type = "TIME_SIZE"

---------------------------------------------------------------------------
(* Claims about failures inside the consumer loops *)

\* the serial numbers of the lines that left Logger "a", in the order they
\* stand in the segment, in the writer's hand and on the gateway's queue
Downstream ==
    LET seg == Segment(gateways[1], 0)
        fl  == IF seg \in DOMAIN files THEN files[seg] ELSE <<>>
        all == fl \o tasks[1].msg \o gateways[1].stream
    IN  [i \in 1..Len(all) |-> all[i].n]

\* C32: when the processing of a dequeued item raises an exception other
\* than cancellation, the Logger's consumer stays alive, every other item
\* is forwarded in the order it was queued, each queued item is eventually
\* taken, and only the failing item is lost.
C32_ConsumerSurvivesFailure ==
    /\ [](loggers[1].pc # "done")
    /\ [](\A n \in 1..nLog :
             IF n \in loggers[1].failed
             THEN ~InLogger(n) /\ \A i \in 1..Len(Downstream) :
                                     Downstream[i] # n
             ELSE InLogger(n) \/ \E i \in 1..Len(Downstream) :
                                     Downstream[i] = n)
    /\ [](\A i, j \in 1..Len(Downstream) :
             (i < j /\ Downstream[i] # 0 /\ Downstream[j] # 0)
             => Downstream[i] < Downstream[j])
    /\ \A n \in 1..MaxLog : InLogger(n) ~> ~InLogger(n)

\* C32 witness: the first item failed and the second, queued behind it,
\* has been written to the segment
C32_Witness ==
    /\ loggers[1].failed = {1}
    /\ InFiles(2) # {}
    /\ loggers[1].pc = "waiting"

\* C33: when the write, the flush or the rotation check after the write of
\* a line raises inside the gateway's writer, the writer stays alive and
\* every line on the gateway's queue is eventually taken; log() stays
\* callable and returns without an error in every state.
C33_WriterSurvivesFailure ==
    /\ [](tasks[1].pc # "done")
    /\ \A n \in 1..MaxLog : (InStream(n) # {}) ~> (InStream(n) = {})
    /\ [](\A sev \in FailSevs : nLog < MaxLog => ENABLED Log(1, sev))
    /\ [][\A sev \in FailSevs :
             Log(1, sev) => /\ lastCall'.err = ""
                            /\ nLog + 1 \in {loggers'[1].queue[i].n :
                                                i \in 1..Len(loggers'[1].queue)}
       ]_vars

\* C33 witness: the write of the first line failed, and the second line,
\* queued behind it, has been written to the segment by the same task
C33_Witness ==
    /\ nLog >= 2
    /\ InFiles(1) = {} /\ InStream(1) = {} /\ InTasks(1) = {}
    /\ ~InLogger(1)
    /\ InFiles(2) # {}
    /\ tasks[1].pc = "waiting"

\* C34: when creating the log directory or opening the segment file fails,
\* the gateway's writer task does not terminate, and every line put on the
\* gateway's queue is eventually taken off it.
C34_WriterSurvivesOpenFailure ==
    /\ [](gateways[1].logging => Live(gateways[1].task))
    /\ \A n \in 1..MaxLog : (InStream(n) # {}) ~> (InStream(n) = {})

---------------------------------------------------------------------------
(* Claims about the registry, checked under Spec *)

\* C35: once stop_everything() has torn the registry down, set_instance
\* succeeds again and installs a composer with the threshold it is given.
C35_SetInstanceAfterTeardown ==
    [][\A str \in InstanceLevels :
          (lastCall.op = "stop_logging" /\ SetInstance(str))
          => /\ lastCall'.err = ""
             /\ composerLevel' = LevelOf(str)]_vars

---------------------------------------------------------------------------
(* A claim about two Loggers on one gateway, checked under ShareSpec *)

C37_EntryMatchesLogger ==
    /\ [](\A k \in 1..Len(registry) :
             registry[k].key = loggers[registry[k].logger].name)
    /\ [][\A name \in GivenNames, file \in GivenFiles, kw \in BOOLEAN :
             NewLogger(name, file, kw)
             => /\ loggers'[lastCall'.obj].name = name
                /\ lastCall'.made # 0
                   => LET e == registry'[Len(registry')]
                      IN  /\ e.logger = lastCall'.made
                          /\ e.key = name
                          /\ e.file = Resolve(file)]_vars

---------------------------------------------------------------------------
(* A claim about amounts that do not parse, checked under ParseSpec *)

\* C38: a set_file_rotation call whose amount cannot be parsed fails and
\* leaves the gateway's policy type and threshold as they were; a later
\* call with a valid amount still sets the policy; and no policy type is
\* ever in force without its threshold.
C38_BadAmountChangesNothing ==
    /\ [][\A r \in BadArgs :
             (gateways[1].rot_type = "NONE" /\ SetFileRotation(1, r[1], r[2]))
             => /\ lastCall'.err = "ValueError"
                /\ gateways'[1].rot_type = gateways[1].rot_type
                /\ gateways'[1].rot_amt = gateways[1].rot_amt]_vars
    /\ [][\A r \in PolicyArgs :
             (lastCall.err = "ValueError" /\ SetFileRotation(1, r[1], r[2]))
             => gateways'[1].rot_type = r[1]]_vars
    /\ [](gateways[1].rot_type # "NONE" => gateways[1].rot_amt # <<>>)

---------------------------------------------------------------------------
(* A claim about the unset threshold, checked under UnsetSpec *)

\* the message of log() call n is on no queue, in no task's hand and in no
\* segment
Nowhere(n) ==
    /\ ~InLogger(n)
    /\ InStream(n) = {} /\ InTasks(n) = {} /\ InFiles(n) = {}

\* C39: a Logger whose threshold is NOTSET enqueues no message of any
\* severity, and a message emitted while the threshold was NOTSET never
\* appears on a queue or in a segment later, whatever threshold is set
\* afterwards.
C39_UnsetAcceptsNothing ==
    /\ [][\A sev \in Severities :
             (loggers[1].level = "NOTSET" /\ Log(1, sev))
             => /\ loggers'[1].queue = loggers[1].queue
                /\ Nowhere(nLog + 1)']_vars
    /\ [][\A n \in 1..nLog : Nowhere(n) => Nowhere(n)']_vars
    /\ [](loggers[1].level = "NOTSET"
            => \A n \in 1..MaxLog : Nowhere(n))

\* C39 witness: the first message was emitted while the threshold was
\* NOTSET and is nowhere; the second, emitted after set_level(DEBUG), has
\* been written to the segment
C39_Witness ==
    /\ loggers[1].level = "DEBUG"
    /\ nLog >= 2
    /\ Nowhere(1)
    /\ InFiles(2) # {}
=============================================================================
